---- MODULE Spec2Model ----
(***************************************************************************)
(* Scanner sessions of the PaperFlow native addons.                        *)
(*                                                                         *)
(* Three N-API classes (TwainScanner, SaneScanner, WiaScanner) each hold   *)
(* the two fields isInitialized_ and selectedDeviceId_ and export the same *)
(* seven instance methods.  Every method runs to completion on the         *)
(* JavaScript thread, so one method call is one step of the model.         *)
(* The variable `last` records the most recent call: its receiver, its     *)
(* arguments, the receiver's fields before the call and what the call      *)
(* handed back to JavaScript (a value, or a pending exception and null).   *)
(***************************************************************************)
EXTENDS Integers, Sequences, FiniteSets, TLC

VARIABLES isInitialized_, selectedDeviceId_, lastDevices, last

vars == <<isInitialized_, selectedDeviceId_, lastDevices, last>>

Backends == {"TWAIN", "SANE", "WIA"}

\* Consecutive calls of one method on one session are counted up to MaxRun.
MaxRun == 2

(***************************************************************************)
(* JavaScript values crossing the N-API boundary.                          *)
(***************************************************************************)
JSNull == [type |-> "null"]

JSBoolean(b) == [type |-> "boolean", bool |-> b]

JSNumber(n) == [type |-> "number", num |-> n]

JSString(s) == [type |-> "string", str |-> s]

JSArray(items) == [type |-> "array", items |-> items]

JSObject(o) == [type |-> "object", obj |-> o]

IsString(v) == v.type = "string"

\* What a method hands back: the returned value and the pending exception.
ReturnValue(v) == [exception |-> "", message |-> "", value |-> v]

ThrowAsJavaScriptException(class, message) ==
    [exception |-> class, message |-> message, value |-> JSNull]

IsTrue(ret) ==
    /\ ret.exception = ""
    /\ ret.value.type = "boolean"
    /\ ret.value.bool = TRUE

\* A ScanResult envelope: an object that carries a "success" key.
IsScanResult(ret) ==
    /\ ret.exception = ""
    /\ ret.value.type = "object"
    /\ "success" \in DOMAIN ret.value.obj

(***************************************************************************)
(* The mock device TwainScanner::EnumerateDevices reports.  maxWidth and   *)
(* maxHeight are 8.5 and 14.0 inches, kept here in tenths of an inch.      *)
(***************************************************************************)
TwainMockCapabilities ==
    [hasFlatbed |-> TRUE, hasADF |-> TRUE, duplex |-> TRUE,
     resolutions |-> <<75, 150, 300, 600>>,
     colorModes |-> <<"color", "grayscale", "blackwhite">>,
     paperSizes |-> <<"letter", "legal", "a4", "a5">>,
     maxWidth |-> 85, maxHeight |-> 140]

TwainMockDevice ==
    [id |-> "twain-mock-001", name |-> "TWAIN Mock Scanner",
     manufacturer |-> "PaperFlow", model |-> "Virtual Scanner",
     available |-> TRUE, platform |-> "twain",
     capabilities |-> TwainMockCapabilities]

(***************************************************************************)
(* Arguments the callers pass.                                             *)
(***************************************************************************)
DeviceIdStrings == {"", "twain-mock-001", "unknown-999"}

SelectInfos ==
    {<<>>, <<JSNumber(42)>>} \cup {<<JSString(s)>> : s \in DeviceIdStrings}

\* Every combination of a supported and an unsupported resolution, colour
\* mode and paper size on the flatbed, and one supported request on the
\* duplex document feeder.
ScanSettings ==
    [resolution : {300, 999}, colorMode : {"color", "sepia"},
     paperSize : {"letter", "tabloid"}, useADF : {FALSE}, duplex : {FALSE},
     brightness : {0}, contrast : {0}]
    \cup
    {[resolution |-> 300, colorMode |-> "color", paperSize |-> "letter",
      useADF |-> TRUE, duplex |-> TRUE, brightness |-> 0, contrast |-> 0]}

ScanInfos == {<<JSObject(s)>> : s \in ScanSettings}

(***************************************************************************)
(* A method of session b returns ret to JavaScript: the call is recorded   *)
(* in `last` together with the fields the session had when it was made,    *)
(* and a device list handed back by enumerateDevices replaces the one the  *)
(* caller holds for that session.                                          *)
(***************************************************************************)
Return(b, method, info, ret) ==
    /\ lastDevices' =
         IF method = "enumerateDevices" /\ ret.exception = ""
            THEN [lastDevices EXCEPT ![b] = ret.value.items]
            ELSE lastDevices
    /\ last' = [backend |-> b, method |-> method, info |-> info,
                pre |-> [isInitialized_ |-> isInitialized_[b],
                         selectedDeviceId_ |-> selectedDeviceId_[b],
                         devices |-> lastDevices[b]],
                ret |-> ret,
                run |-> IF last.backend = b /\ last.method = method
                           THEN (IF last.run < MaxRun THEN last.run + 1
                                                      ELSE MaxRun)
                           ELSE 1]

Init ==
    /\ isInitialized_ = [b \in Backends |-> FALSE]
    /\ selectedDeviceId_ = [b \in Backends |-> ""]
    /\ lastDevices = [b \in Backends |-> <<>>]
    /\ last = [backend |-> "", method |-> "constructor", info |-> <<>>,
               pre |-> [isInitialized_ |-> FALSE, selectedDeviceId_ |-> "",
                        devices |-> <<>>],
               ret |-> ReturnValue(JSNull), run |-> 0]

(***************************************************************************)
(* TwainScanner                                                            *)
(***************************************************************************)
TwainScanner_Initialize ==
    /\ isInitialized_' = [isInitialized_ EXCEPT !["TWAIN"] = TRUE]
    /\ UNCHANGED selectedDeviceId_
    /\ Return("TWAIN", "initialize", <<>>, ReturnValue(JSBoolean(TRUE)))

\* An enumerateDevices that drops the selection when it hands out a list.
TwainScanner_EnumerateDevices_Deselects ==
    /\ UNCHANGED isInitialized_
    /\ IF ~isInitialized_["TWAIN"]
          THEN /\ UNCHANGED selectedDeviceId_
               /\ Return("TWAIN", "enumerateDevices", <<>>,
                         ThrowAsJavaScriptException("Error", "TWAIN not initialized"))
          ELSE /\ selectedDeviceId_' = [selectedDeviceId_ EXCEPT !["TWAIN"] = ""]
               /\ Return("TWAIN", "enumerateDevices", <<>>,
                         ReturnValue(JSArray(<<TwainMockDevice>>)))

TwainScanner_EnumerateDevices ==
    /\ UNCHANGED <<isInitialized_, selectedDeviceId_>>
    /\ IF ~isInitialized_["TWAIN"]
          THEN Return("TWAIN", "enumerateDevices", <<>>,
                      ThrowAsJavaScriptException("Error", "TWAIN not initialized"))
          ELSE Return("TWAIN", "enumerateDevices", <<>>,
                      ReturnValue(JSArray(<<TwainMockDevice>>)))

\* A selectDevice that keeps the device already selected.
TwainScanner_SelectDevice_KeepsFirst(info) ==
    IF Len(info) < 1 \/ ~IsString(info[1])
       THEN /\ UNCHANGED <<isInitialized_, selectedDeviceId_>>
            /\ Return("TWAIN", "selectDevice", info,
                      ThrowAsJavaScriptException("TypeError", "Device ID expected"))
       ELSE /\ selectedDeviceId_' =
                 [selectedDeviceId_ EXCEPT !["TWAIN"] =
                    IF selectedDeviceId_["TWAIN"] = "" THEN info[1].str
                    ELSE selectedDeviceId_["TWAIN"]]
            /\ UNCHANGED isInitialized_
            /\ Return("TWAIN", "selectDevice", info, ReturnValue(JSBoolean(TRUE)))

TwainScanner_SelectDevice(info) ==
    IF Len(info) < 1 \/ ~IsString(info[1])
       THEN /\ UNCHANGED <<isInitialized_, selectedDeviceId_>>
            /\ Return("TWAIN", "selectDevice", info,
                      ThrowAsJavaScriptException("TypeError", "Device ID expected"))
       ELSE /\ selectedDeviceId_' =
                 [selectedDeviceId_ EXCEPT !["TWAIN"] = info[1].str]
            /\ UNCHANGED isInitialized_
            /\ Return("TWAIN", "selectDevice", info, ReturnValue(JSBoolean(TRUE)))

TwainScanner_GetCapabilities ==
    /\ UNCHANGED <<isInitialized_, selectedDeviceId_>>
    /\ Return("TWAIN", "getCapabilities", <<>>,
              ReturnValue(JSObject([hasFlatbed |-> TRUE, hasADF |-> TRUE,
                                    duplex |-> TRUE])))

\* The settings in info are never read.
TwainScanner_Scan(info) ==
    /\ UNCHANGED <<isInitialized_, selectedDeviceId_>>
    /\ IF selectedDeviceId_["TWAIN"] = ""
          THEN Return("TWAIN", "scan", info,
                      ThrowAsJavaScriptException("Error", "No device selected"))
          ELSE Return("TWAIN", "scan", info,
                      ReturnValue(JSObject(
                        [success |-> FALSE,
                         errorMessage |->
                           "TWAIN scanning not implemented - using mock scanner"])))

\* A cancelScan that also drops the selection.
TwainScanner_CancelScan_Deselects ==
    /\ selectedDeviceId_' = [selectedDeviceId_ EXCEPT !["TWAIN"] = ""]
    /\ UNCHANGED isInitialized_
    /\ Return("TWAIN", "cancelScan", <<>>, ReturnValue(JSBoolean(TRUE)))

TwainScanner_CancelScan ==
    /\ UNCHANGED <<isInitialized_, selectedDeviceId_>>
    /\ Return("TWAIN", "cancelScan", <<>>, ReturnValue(JSBoolean(TRUE)))

TwainScanner_Close ==
    /\ isInitialized_' = [isInitialized_ EXCEPT !["TWAIN"] = FALSE]
    /\ selectedDeviceId_' = [selectedDeviceId_ EXCEPT !["TWAIN"] = ""]
    /\ Return("TWAIN", "close", <<>>, ReturnValue(JSBoolean(TRUE)))

(***************************************************************************)
(* SaneScanner                                                             *)
(***************************************************************************)
\* An initialize that reports a redundant call as a failure.
SaneScanner_Initialize_RejectsSecond ==
    /\ isInitialized_' = [isInitialized_ EXCEPT !["SANE"] = TRUE]
    /\ UNCHANGED selectedDeviceId_
    /\ Return("SANE", "initialize", <<>>,
              ReturnValue(JSBoolean(~isInitialized_["SANE"])))

SaneScanner_Initialize ==
    /\ isInitialized_' = [isInitialized_ EXCEPT !["SANE"] = TRUE]
    /\ UNCHANGED selectedDeviceId_
    /\ Return("SANE", "initialize", <<>>, ReturnValue(JSBoolean(TRUE)))

\* isInitialized_ is not consulted.
SaneScanner_EnumerateDevices ==
    /\ UNCHANGED <<isInitialized_, selectedDeviceId_>>
    /\ Return("SANE", "enumerateDevices", <<>>, ReturnValue(JSArray(<<>>)))

SaneScanner_SelectDevice(info) ==
    IF Len(info) < 1 \/ ~IsString(info[1])
       THEN /\ UNCHANGED <<isInitialized_, selectedDeviceId_>>
            /\ Return("SANE", "selectDevice", info,
                      ThrowAsJavaScriptException("TypeError", "Device ID expected"))
       ELSE /\ selectedDeviceId_' =
                 [selectedDeviceId_ EXCEPT !["SANE"] = info[1].str]
            /\ UNCHANGED isInitialized_
            /\ Return("SANE", "selectDevice", info, ReturnValue(JSBoolean(TRUE)))

SaneScanner_GetCapabilities ==
    /\ UNCHANGED <<isInitialized_, selectedDeviceId_>>
    /\ Return("SANE", "getCapabilities", <<>>, ReturnValue(JSObject(<<>>)))

\* A scan whose failed result carries no errorMessage.
SaneScanner_Scan_NoMessage(info) ==
    /\ UNCHANGED <<isInitialized_, selectedDeviceId_>>
    /\ Return("SANE", "scan", info,
              ReturnValue(JSObject([success |-> FALSE])))

\* Neither selectedDeviceId_ nor the settings in info are consulted.
SaneScanner_Scan(info) ==
    /\ UNCHANGED <<isInitialized_, selectedDeviceId_>>
    /\ Return("SANE", "scan", info,
              ReturnValue(JSObject(
                [success |-> FALSE,
                 errorMessage |-> "SANE scanning not implemented"])))

SaneScanner_CancelScan ==
    /\ UNCHANGED <<isInitialized_, selectedDeviceId_>>
    /\ Return("SANE", "cancelScan", <<>>, ReturnValue(JSBoolean(TRUE)))

\* selectedDeviceId_ is left as it is.
SaneScanner_Close ==
    /\ isInitialized_' = [isInitialized_ EXCEPT !["SANE"] = FALSE]
    /\ UNCHANGED selectedDeviceId_
    /\ Return("SANE", "close", <<>>, ReturnValue(JSBoolean(TRUE)))

(***************************************************************************)
(* WiaScanner                                                              *)
(***************************************************************************)
WiaScanner_Initialize ==
    /\ isInitialized_' = [isInitialized_ EXCEPT !["WIA"] = TRUE]
    /\ UNCHANGED selectedDeviceId_
    /\ Return("WIA", "initialize", <<>>, ReturnValue(JSBoolean(TRUE)))

\* isInitialized_ is not consulted.
WiaScanner_EnumerateDevices ==
    /\ UNCHANGED <<isInitialized_, selectedDeviceId_>>
    /\ Return("WIA", "enumerateDevices", <<>>, ReturnValue(JSArray(<<>>)))

\* A selectDevice that tests only the number of arguments, and on a
\* non-string argument stores the empty id before it raises the error.
WiaScanner_SelectDevice_StoresFirst(info) ==
    IF Len(info) < 1
       THEN /\ UNCHANGED <<isInitialized_, selectedDeviceId_>>
            /\ Return("WIA", "selectDevice", info,
                      ThrowAsJavaScriptException("TypeError", "Device ID expected"))
       ELSE /\ selectedDeviceId_' =
                 [selectedDeviceId_ EXCEPT !["WIA"] =
                    IF IsString(info[1]) THEN info[1].str ELSE ""]
            /\ UNCHANGED isInitialized_
            /\ Return("WIA", "selectDevice", info,
                      IF IsString(info[1])
                         THEN ReturnValue(JSBoolean(TRUE))
                         ELSE ThrowAsJavaScriptException("TypeError",
                                                         "Device ID expected"))

WiaScanner_SelectDevice(info) ==
    IF Len(info) < 1 \/ ~IsString(info[1])
       THEN /\ UNCHANGED <<isInitialized_, selectedDeviceId_>>
            /\ Return("WIA", "selectDevice", info,
                      ThrowAsJavaScriptException("TypeError", "Device ID expected"))
       ELSE /\ selectedDeviceId_' =
                 [selectedDeviceId_ EXCEPT !["WIA"] = info[1].str]
            /\ UNCHANGED isInitialized_
            /\ Return("WIA", "selectDevice", info, ReturnValue(JSBoolean(TRUE)))

WiaScanner_GetCapabilities ==
    /\ UNCHANGED <<isInitialized_, selectedDeviceId_>>
    /\ Return("WIA", "getCapabilities", <<>>, ReturnValue(JSObject(<<>>)))

\* Neither selectedDeviceId_ nor the settings in info are consulted.
WiaScanner_Scan(info) ==
    /\ UNCHANGED <<isInitialized_, selectedDeviceId_>>
    /\ Return("WIA", "scan", info,
              ReturnValue(JSObject(
                [success |-> FALSE,
                 errorMessage |-> "WIA scanning not implemented"])))

WiaScanner_CancelScan ==
    /\ UNCHANGED <<isInitialized_, selectedDeviceId_>>
    /\ Return("WIA", "cancelScan", <<>>, ReturnValue(JSBoolean(TRUE)))

\* A close that reports "nothing to close" as a failure.
WiaScanner_Close_RejectsClosed ==
    /\ isInitialized_' = [isInitialized_ EXCEPT !["WIA"] = FALSE]
    /\ UNCHANGED selectedDeviceId_
    /\ Return("WIA", "close", <<>>,
              ReturnValue(JSBoolean(isInitialized_["WIA"])))

\* selectedDeviceId_ is left as it is.
WiaScanner_Close ==
    /\ isInitialized_' = [isInitialized_ EXCEPT !["WIA"] = FALSE]
    /\ UNCHANGED selectedDeviceId_
    /\ Return("WIA", "close", <<>>, ReturnValue(JSBoolean(TRUE)))

Next ==
    \/ TwainScanner_Initialize
    \/ TwainScanner_EnumerateDevices
    \/ \E info \in SelectInfos : TwainScanner_SelectDevice(info)
    \/ TwainScanner_GetCapabilities
    \/ \E info \in ScanInfos : TwainScanner_Scan(info)
    \/ TwainScanner_CancelScan
    \/ TwainScanner_Close
    \/ SaneScanner_Initialize
    \/ SaneScanner_EnumerateDevices
    \/ \E info \in SelectInfos : SaneScanner_SelectDevice(info)
    \/ SaneScanner_GetCapabilities
    \/ \E info \in ScanInfos : SaneScanner_Scan(info)
    \/ SaneScanner_CancelScan
    \/ SaneScanner_Close
    \/ WiaScanner_Initialize
    \/ WiaScanner_EnumerateDevices
    \/ \E info \in SelectInfos : WiaScanner_SelectDevice(info)
    \/ WiaScanner_GetCapabilities
    \/ \E info \in ScanInfos : WiaScanner_Scan(info)
    \/ WiaScanner_CancelScan
    \/ WiaScanner_Close

Spec == Init /\ [][Next]_vars

(***************************************************************************)
(* Vocabulary of the session contract, read off the fields and the         *)
(* returned values.                                                        *)
(***************************************************************************)
\* The named error of the contract that a returned outcome stands for.
ErrorKind(ret) ==
    IF ret.exception = "Error" /\ ret.message = "TWAIN not initialized"
       THEN "NotInitialized"
    ELSE IF ret.exception = "Error" /\ ret.message = "No device selected"
       THEN "NoDeviceSelected"
    ELSE IF ret.exception = "TypeError" /\ ret.message = "Device ID expected"
       THEN "InvalidArgument"
    ELSE IF IsScanResult(ret) /\ ~ret.value.obj.success
       THEN "NotImplemented"
    ELSE "none"

Range(seq) == {seq[i] : i \in DOMAIN seq}

DeviceIds(devices) == {d.id : d \in Range(devices)}

\* validate(settings, capabilities) of the capability model.
Violations(s, c) ==
    {f \in {"resolution", "colorMode", "paperSize", "useADF", "duplex"} :
        \/ f = "resolution" /\ s.resolution \notin Range(c.resolutions)
        \/ f = "colorMode" /\ s.colorMode \notin Range(c.colorModes)
        \/ f = "paperSize" /\ s.paperSize \notin Range(c.paperSizes)
        \/ f = "useADF" /\ s.useADF /\ ~c.hasADF
        \/ f = "duplex" /\ s.duplex /\ ~c.duplex}

Validate(s, c) == Violations(s, c) = {}

\* The fields of the session the last call was made on.
Self == [isInitialized_ |-> isInitialized_[last.backend],
         selectedDeviceId_ |-> selectedDeviceId_[last.backend]]

Called(method) == last.method = method

FieldsUnchanged ==
    /\ Self.isInitialized_ = last.pre.isInitialized_
    /\ Self.selectedDeviceId_ = last.pre.selectedDeviceId_

CalledWithString == Called("selectDevice") /\ Len(last.info) >= 1 /\ IsString(last.info[1])

(***************************************************************************)
(* C1: enumerateDevices on a session that is not initialized fails with    *)
(* NotInitialized and returns no device list, in every backend.            *)
(***************************************************************************)
C1_EnumerateUninitializedFails ==
    (Called("enumerateDevices") /\ ~last.pre.isInitialized_)
        => (ErrorKind(last.ret) = "NotInitialized" /\ last.ret.value.type # "array")

(***************************************************************************)
(* C2: scan on a session with no selected device fails with                *)
(* NoDeviceSelected, returns no ScanResult and leaves the initialization   *)
(* flag and the selected device id as they were, in every backend.         *)
(***************************************************************************)
C2_ScanWithoutDeviceFails ==
    (Called("scan") /\ last.pre.selectedDeviceId_ = "")
        => /\ ErrorKind(last.ret) = "NoDeviceSelected"
           /\ ~IsScanResult(last.ret)
           /\ FieldsUnchanged

(***************************************************************************)
(* C3: selectDevice with a non-empty id that the session's most recent     *)
(* enumerateDevices did not return fails with DeviceNotFound and does not  *)
(* store the id.                                                           *)
(***************************************************************************)
C3_SelectUnknownDeviceFails ==
    (/\ CalledWithString
     /\ last.info[1].str # ""
     /\ last.info[1].str \notin DeviceIds(last.pre.devices))
        => /\ ErrorKind(last.ret) = "DeviceNotFound"
           /\ Self.selectedDeviceId_ = last.pre.selectedDeviceId_

(***************************************************************************)
(* C4: selectDevice("") fails with InvalidArgument in every state; it      *)
(* never reports a successful selection of the empty id.                   *)
(***************************************************************************)
C4_SelectEmptyIdFails ==
    (CalledWithString /\ last.info[1].str = "")
        => (ErrorKind(last.ret) = "InvalidArgument" /\ ~IsTrue(last.ret))

(***************************************************************************)
(* C5: close is total and idempotent: every close, from any state and any  *)
(* number of times in a row, also before any initialize, returns true and  *)
(* leaves the session not initialized.                                     *)
(***************************************************************************)
C5_CloseIdempotentTotal ==
    Called("close") => (IsTrue(last.ret) /\ ~Self.isInitialized_)

\* close has just run a second time in a row, on a session already closed.
C5_Witness ==
    Called("close") /\ last.run >= 2 /\ ~last.pre.isInitialized_

(***************************************************************************)
(* C6: close clears the selected device id, so that a closed session has   *)
(* the fields of a freshly constructed one, in every backend.              *)
(***************************************************************************)
C6_CloseClearsSelection ==
    Called("close")
        => (~Self.isInitialized_ /\ Self.selectedDeviceId_ = "")

(***************************************************************************)
(* C7: initialize is idempotent: every initialize returns true and leaves  *)
(* the session initialized with the selected device id it had, so a second *)
(* initialize in a row changes nothing.                                    *)
(***************************************************************************)
C7_InitializeIdempotent ==
    Called("initialize")
        => /\ IsTrue(last.ret)
           /\ Self.isInitialized_
           /\ Self.selectedDeviceId_ = last.pre.selectedDeviceId_
           /\ (last.pre.isInitialized_ => FieldsUnchanged)

\* initialize has just run a second time in a row, with a device selected.
C7_Witness ==
    /\ Called("initialize") /\ last.run >= 2
    /\ last.pre.isInitialized_ /\ last.pre.selectedDeviceId_ # ""

(***************************************************************************)
(* C8: cancelScan with no scan in flight returns true and leaves the       *)
(* initialization flag and the selected device id unchanged.  scan returns *)
(* within its own call, so no cancelScan ever finds a scan in flight.      *)
(***************************************************************************)
C8_CancelScanNoOp ==
    Called("cancelScan") => (IsTrue(last.ret) /\ FieldsUnchanged)

\* cancelScan has just run on an initialized session with a device selected.
C8_Witness ==
    /\ Called("cancelScan")
    /\ last.pre.isInitialized_ /\ last.pre.selectedDeviceId_ # ""

(***************************************************************************)
(* C10: scan checks its settings against the capabilities of the selected  *)
(* device: when the selected device is one the session enumerated and some *)
(* field of the settings is outside its capability sets, scan fails with   *)
(* InvalidSettings.                                                        *)
(***************************************************************************)
C10_ScanRejectsInvalidSettings ==
    \A d \in Range(last.pre.devices) :
        (/\ Called("scan")
         /\ d.id = last.pre.selectedDeviceId_
         /\ ~Validate(last.info[1].obj, d.capabilities))
            => ErrorKind(last.ret) = "InvalidSettings"

\* The lifecycle state of the contract that a session's fields stand for.
LifecycleState(fields) ==
    IF ~fields.isInitialized_ THEN "Uninitialized"
    ELSE IF fields.selectedDeviceId_ = "" THEN "Ready"
    ELSE "DeviceSelected"

(***************************************************************************)
(* C11: on an initialized session whose selected device was enumerated and *)
(* is available, scan with settings inside the device's capability sets    *)
(* (resolution 300, colorMode color, paperSize letter, no ADF, no duplex)  *)
(* returns a ScanResult with success = true that echoes resolution 300 and *)
(* colorMode color.                                                        *)
(***************************************************************************)
C11_ValidScanSucceeds ==
    \A d \in Range(last.pre.devices) :
        (/\ Called("scan")
         /\ last.pre.isInitialized_
         /\ d.id = last.pre.selectedDeviceId_ /\ d.available
         /\ last.info[1].obj =
              [resolution |-> 300, colorMode |-> "color", paperSize |-> "letter",
               useADF |-> FALSE, duplex |-> FALSE, brightness |-> 0,
               contrast |-> 0]
         /\ Validate(last.info[1].obj, d.capabilities))
            => /\ IsScanResult(last.ret)
               /\ last.ret.value.obj.success
               /\ "resolution" \in DOMAIN last.ret.value.obj
               /\ last.ret.value.obj.resolution = 300
               /\ "colorMode" \in DOMAIN last.ret.value.obj
               /\ last.ret.value.obj.colorMode = "color"

(***************************************************************************)
(* C12: getCapabilities on a session with no selected device fails with    *)
(* NoDeviceSelected and returns no capability object, in every backend.    *)
(***************************************************************************)
C12_GetCapabilitiesNeedsDevice ==
    (Called("getCapabilities") /\ last.pre.selectedDeviceId_ = "")
        => (ErrorKind(last.ret) = "NoDeviceSelected"
            /\ last.ret.value.type # "object")

(***************************************************************************)
(* C13: selectDevice with a device id on a session that is not             *)
(* initialized does not succeed, and in every state of every backend a     *)
(* non-empty selected device id implies that the session is initialized.   *)
(***************************************************************************)
C13_SelectionImpliesInitialized ==
    /\ (CalledWithString /\ last.info[1].str # "" /\ ~last.pre.isInitialized_)
           => ~IsTrue(last.ret)
    /\ \A b \in Backends : selectedDeviceId_[b] # "" => isInitialized_[b]

(***************************************************************************)
(* One caller driving the three backends with the same sequence of calls:  *)
(* each call is made on the TwainScanner, then repeated with the same      *)
(* arguments on the SaneScanner and then on the WiaScanner.                *)
(***************************************************************************)
TwainCall ==
    \/ TwainScanner_Initialize
    \/ TwainScanner_EnumerateDevices
    \/ \E info \in SelectInfos : TwainScanner_SelectDevice(info)
    \/ TwainScanner_GetCapabilities
    \/ \E info \in ScanInfos : TwainScanner_Scan(info)
    \/ TwainScanner_CancelScan
    \/ TwainScanner_Close

SaneRepeat ==
    \/ last.method = "initialize" /\ SaneScanner_Initialize
    \/ last.method = "enumerateDevices" /\ SaneScanner_EnumerateDevices
    \/ last.method = "selectDevice" /\ SaneScanner_SelectDevice(last.info)
    \/ last.method = "getCapabilities" /\ SaneScanner_GetCapabilities
    \/ last.method = "scan" /\ SaneScanner_Scan(last.info)
    \/ last.method = "cancelScan" /\ SaneScanner_CancelScan
    \/ last.method = "close" /\ SaneScanner_Close

WiaRepeat ==
    \/ last.method = "initialize" /\ WiaScanner_Initialize
    \/ last.method = "enumerateDevices" /\ WiaScanner_EnumerateDevices
    \/ last.method = "selectDevice" /\ WiaScanner_SelectDevice(last.info)
    \/ last.method = "getCapabilities" /\ WiaScanner_GetCapabilities
    \/ last.method = "scan" /\ WiaScanner_Scan(last.info)
    \/ last.method = "cancelScan" /\ WiaScanner_CancelScan
    \/ last.method = "close" /\ WiaScanner_Close

LockstepNext ==
    \/ last.backend \in {"", "WIA"} /\ TwainCall
    \/ last.backend = "TWAIN" /\ SaneRepeat
    \/ last.backend = "SANE" /\ WiaRepeat

LockstepSpec == Init /\ [][LockstepNext]_vars

\* The kind of outcome a call has: a named error, a failed or a successful
\* ScanResult, or a value of some type.
OutcomeKind(ret) ==
    IF ret.exception # "" THEN ErrorKind(ret)
    ELSE IF IsScanResult(ret)
       THEN (IF ret.value.obj.success THEN "ScanResult" ELSE "failed ScanResult")
    ELSE ret.value.type

(***************************************************************************)
(* C14: the backends honor the contract identically: when a call is        *)
(* repeated with the same arguments on the next backend, after the same    *)
(* sequence of calls on both, it has the same kind of outcome and leaves   *)
(* that backend in the same lifecycle state.                               *)
(***************************************************************************)
C14_BackendsAgree ==
    [][(last.backend \in {"TWAIN", "SANE"} /\ last'.backend # last.backend)
          => /\ last'.method = last.method
             /\ last'.info = last.info
             /\ OutcomeKind(last'.ret) = OutcomeKind(last.ret)
             /\ LifecycleState(
                  [isInitialized_ |-> isInitialized_'[last'.backend],
                   selectedDeviceId_ |-> selectedDeviceId_'[last'.backend]])
                = LifecycleState(
                  [isInitialized_ |-> isInitialized_'[last.backend],
                   selectedDeviceId_ |-> selectedDeviceId_'[last.backend]])]_vars

(***************************************************************************)
(* C15: a scan that returns a ScanResult with success = false leaves the   *)
(* session in DeviceSelected with the selected device id it had, so that   *)
(* a following scan or selectDevice is legal.                              *)
(***************************************************************************)
C15_FailedScanKeepsSession ==
    (Called("scan") /\ IsScanResult(last.ret) /\ ~last.ret.value.obj.success)
        => /\ LifecycleState(Self) = "DeviceSelected"
           /\ Self.selectedDeviceId_ = last.pre.selectedDeviceId_

(***************************************************************************)
(* C16: enumerateDevices never changes the session: whether it returns a   *)
(* list (possibly empty) or fails, the initialization flag and the         *)
(* selected device id are the same before and after the call.              *)
(***************************************************************************)
C16_EnumerateDevicesKeepsFields ==
    Called("enumerateDevices") => FieldsUnchanged

\* enumerateDevices has just returned a list to a session with a device
\* selected.
C16_Witness ==
    /\ Called("enumerateDevices")
    /\ last.ret.value.type = "array" /\ last.ret.value.items # <<>>
    /\ last.pre.isInitialized_ /\ last.pre.selectedDeviceId_ # ""

(***************************************************************************)
(* C17: every ScanResult returned by scan is a well-formed envelope:       *)
(* errorMessage is populated exactly when success is false, and imageData  *)
(* is present exactly when success is true.                                *)
(***************************************************************************)
C17_ScanResultWellFormed ==
    (Called("scan") /\ IsScanResult(last.ret))
        => LET o == last.ret.value.obj
           IN  /\ o.success \in BOOLEAN
               /\ ("errorMessage" \in DOMAIN o /\ o.errorMessage # "")
                     <=> ~o.success
               /\ ("imageData" \in DOMAIN o) <=> o.success

\* scan has just returned a ScanResult for a selected device.
C17_Witness ==
    /\ Called("scan") /\ IsScanResult(last.ret)
    /\ last.pre.selectedDeviceId_ # ""

(***************************************************************************)
(* C18: re-selection replaces the prior selection: after a selectDevice    *)
(* that succeeds, the selected device id is the id just passed, whatever   *)
(* id was selected before.                                                 *)
(***************************************************************************)
C18_ReselectionReplaces ==
    (Called("selectDevice") /\ IsTrue(last.ret))
        => (CalledWithString /\ Self.selectedDeviceId_ = last.info[1].str)

\* selectDevice has just succeeded a second time in a row, with another id
\* than the one selected before.
C18_Witness ==
    /\ Called("selectDevice") /\ IsTrue(last.ret) /\ last.run >= 2
    /\ last.pre.selectedDeviceId_ # ""
    /\ last.info[1].str # ""
    /\ last.info[1].str # last.pre.selectedDeviceId_

(***************************************************************************)
(* C19: selectDevice with no argument or with a non-string argument raises *)
(* the TypeError "Device ID expected" and leaves the selected device id    *)
(* and the initialization flag unchanged, in every backend.                *)
(***************************************************************************)
C19_SelectDeviceTypeError ==
    (Called("selectDevice") /\ ~CalledWithString)
        => /\ last.ret.exception = "TypeError"
           /\ last.ret.message = "Device ID expected"
           /\ last.ret.value = JSNull
           /\ FieldsUnchanged

\* selectDevice has just been called with a number on an initialized
\* session that has a device selected.
C19_Witness ==
    /\ Called("selectDevice") /\ Len(last.info) = 1 /\ ~IsString(last.info[1])
    /\ last.pre.isInitialized_ /\ last.pre.selectedDeviceId_ # ""

====
